---- MODULE Spec2Model ----
(***************************************************************************)
(* Git graph layout engine of git-canvas                                   *)
(* (packages/frontend/src/utils/gitGraph/layoutCalculator.ts).              *)
(*                                                                         *)
(* calculateGitGraphLayout is a pure function; the state machine holds the *)
(* arguments of one invocation and the layout it returns.  Commit ids are  *)
(* modelled as positive integers (opaque, unique), dates as integer        *)
(* timestamps, arrays as sequences, Maps as functions on their key set.    *)
(* commits, branchesOrConfig and config are the caller's objects, which    *)
(* the invocation is handed by reference; passed keeps their content at    *)
(* the moment of the call.                                                 *)
(***************************************************************************)
EXTENDS Integers, Sequences, FiniteSets, TLC

VARIABLES commits, branchesOrConfig, config, layout, pc, passed

vars == <<commits, branchesOrConfig, config, layout, pc, passed>>

(***************************************************************************)
(* Bounds of the input space.                                              *)
(***************************************************************************)
\* number of commits of the inputs that vary the commit graph
MaxCommits == 4
\* number of commits of the inputs that vary dates and config
MaxDatedCommits == 3
\* timestamps of the dated inputs are drawn from 1..MaxDate
MaxDate == 2
\* number of commits of the inputs whose parentIds are unchecked
MaxLooseCommits == 3
\* number of commits of the long linear inputs
MaxChainCommits == 103
\* number of commits of the inputs that list children before their parents
MaxUnorderedCommits == 4

(***************************************************************************)
(* Helpers on sequences and functions.                                     *)
(***************************************************************************)
Range(s) == {s[i] : i \in DOMAIN s}

\* Math.max(0, ...values): the largest element, 0 for none
SetMax(S) == IF S = {} THEN 0 ELSE CHOOSE v \in S : \A w \in S : w <= v

\* Map.set: an existing key keeps its place, its value is replaced
MapSet(m, k, v) == (k :> v) @@ m

EmptyMap == [x \in {} |-> 0]

\* a loop whose iterations lo..hi turn the state st into Body(st, i), one after
\* the other; the range is halved and the state of the first half is evaluated
\* before the second half starts
RECURSIVE ForLoop(_, _, _, _)
ForLoop(Body(_, _), st, lo, hi) ==
  IF lo > hi THEN st
  ELSE IF lo = hi THEN Body(st, lo)
  ELSE LET mid == (lo + hi) \div 2
       IN CHOOSE after \in {ForLoop(Body, half, mid + 1, hi) :
                              half \in {ForLoop(Body, st, lo, mid)}} : TRUE

\* a loop that turns the state st into Body(st) until Left holds of it, n times
\* at most; n is halved like the range of ForLoop
RECURSIVE WhileLoop(_, _, _, _)
WhileLoop(Body(_), Left(_), st, n) ==
  IF n = 0 \/ Left(st) THEN st
  ELSE IF n = 1 THEN Body(st)
  ELSE CHOOSE after \in {WhileLoop(Body, Left, half, n - n \div 2) :
                           half \in {WhileLoop(Body, Left, st, n \div 2)}} : TRUE

(***************************************************************************)
(* DEFAULT_LAYOUT_CONFIG and the argument interpretation.                   *)
(***************************************************************************)
DEFAULT_LAYOUT_CONFIG ==
  [nodeSpacing |-> 80, laneHeight |-> 60, startX |-> 50, startY |-> 30, nodeRadius |-> 8]

\* { ...DEFAULT_LAYOUT_CONFIG, ...partial }: the fields of partial win
SpreadConfig(partial) ==
  [f \in DOMAIN DEFAULT_LAYOUT_CONFIG |->
     IF f \in DOMAIN partial THEN partial[f] ELSE DEFAULT_LAYOUT_CONFIG[f]]

\* tagged value of the second argument: an array of branches, a config object, or omitted
IsArray(v) == v.kind = "array"

ResolveBranches(boc) == IF IsArray(boc) THEN boc.branches ELSE <<>>

ResolveConfig(boc, cfg) ==
  IF IsArray(boc) THEN SpreadConfig(cfg)
  ELSE IF boc.kind = "object" THEN SpreadConfig(boc.config)
  ELSE SpreadConfig(<<>>)

(***************************************************************************)
(* Step 1: sortCommitsByDate (Array.prototype.sort is stable).              *)
(***************************************************************************)
\* variant: equal timestamps are swapped (comparison with < in place of <=)
RECURSIVE InsertByDate_Unstable(_, _)
InsertByDate_Unstable(s, c) ==
  IF s = <<>> THEN <<c>>
  ELSE IF s[Len(s)].date < c.date THEN Append(s, c)
  ELSE Append(InsertByDate_Unstable(SubSeq(s, 1, Len(s) - 1), c), s[Len(s)])

RECURSIVE InsertByDate(_, _)
InsertByDate(s, c) ==
  IF s = <<>> THEN <<c>>
  ELSE IF s[Len(s)].date <= c.date THEN Append(s, c)
  ELSE Append(InsertByDate(SubSeq(s, 1, Len(s) - 1), c), s[Len(s)])

SortPrefix(cs, n) ==
  LET Insert(sorted, i) == InsertByDate(sorted, cs[i])
  IN ForLoop(Insert, <<>>, 1, n)

sortCommitsByDate(cs) == SortPrefix(cs, Len(cs))

(***************************************************************************)
(* findBranchPoints: ids with two or more commits naming them as parent.   *)
(***************************************************************************)
findBranchPoints(cs) ==
  {cs[i].id : i \in {k \in DOMAIN cs :
      Cardinality({j \in DOMAIN cs : cs[k].id \in Range(cs[j].parentIds)}) >= 2}}

\* new Map(commits.map(c => [c.id, c])).get(id): the last commit of that id
HasCommit(cs, id) == \E i \in DOMAIN cs : cs[i].id = id

CommitById(cs, id) ==
  cs[CHOOSE i \in DOMAIN cs :
       cs[i].id = id /\ \A j \in DOMAIN cs : cs[j].id = id => j <= i]

(***************************************************************************)
(* findFeaturePaths: for each merge commit in chronological order, walk    *)
(* from its second parent along first parents up to a branch point and     *)
(* record the lane of the walk for every id visited.                       *)
(***************************************************************************)
\* let maxDepth = 100
MaxDepth == 100

IsMergeCommit(c) == Len(c.parentIds) >= 2

\* availableLanes.sort((a, b) => a - b)
RECURSIVE InsertNum(_, _)
InsertNum(s, n) ==
  IF s = <<>> THEN <<n>>
  ELSE IF s[Len(s)] <= n THEN Append(s, n)
  ELSE Append(InsertNum(SubSeq(s, 1, Len(s) - 1), n), s[Len(s)])

RECURSIVE SortNums(_)
SortNums(s) ==
  IF s = <<>> THEN <<>> ELSE InsertNum(SortNums(SubSeq(s, 1, Len(s) - 1)), s[Len(s)])

\* the state of the while loop of one merge commit: its variables, the number
\* of iterations made and whether the loop has been left
WalkStart(currentId, depth, commitToLane) ==
  [currentId |-> currentId, maxDepth |-> depth, commitToLane |-> commitToLane,
   steps |-> 0, exited |-> FALSE]

\* variant: maxDepth is not counted down
WalkStep_NoCountdown(cs, branchPoints, featureLane, st) ==
  IF st.exited THEN st
  ELSE IF ~(st.maxDepth > 0) THEN [st EXCEPT !.exited = TRUE]
  ELSE LET currentId == st.currentId
           recorded  == IF currentId \in DOMAIN st.commitToLane THEN st.commitToLane
                        ELSE MapSet(st.commitToLane, currentId, featureLane)
           entered   == [st EXCEPT !.steps = @ + 1]
       IN IF currentId \in branchPoints THEN [entered EXCEPT !.exited = TRUE]
          ELSE IF ~HasCommit(cs, currentId) \/ Len(CommitById(cs, currentId).parentIds) = 0
          THEN [entered EXCEPT !.commitToLane = recorded, !.exited = TRUE]
          ELSE [entered EXCEPT !.commitToLane = recorded,
                               !.currentId = CommitById(cs, currentId).parentIds[1]]

\* the loop test `currentId && maxDepth > 0` (an id is never empty) and, when it
\* passes, one iteration of the while loop; a loop that has been left stays as it is
WalkStep(cs, branchPoints, featureLane, st) ==
  IF st.exited THEN st
  ELSE IF ~(st.maxDepth > 0) THEN [st EXCEPT !.exited = TRUE]
  ELSE LET currentId == st.currentId
           recorded  == IF currentId \in DOMAIN st.commitToLane THEN st.commitToLane
                        ELSE MapSet(st.commitToLane, currentId, featureLane)
           entered   == [st EXCEPT !.maxDepth = @ - 1, !.steps = @ + 1]
       IN IF currentId \in branchPoints THEN [entered EXCEPT !.exited = TRUE]
          ELSE IF ~HasCommit(cs, currentId) \/ Len(CommitById(cs, currentId).parentIds) = 0
          THEN [entered EXCEPT !.commitToLane = recorded, !.exited = TRUE]
          ELSE [entered EXCEPT !.commitToLane = recorded,
                               !.currentId = CommitById(cs, currentId).parentIds[1]]

\* the while loop of one merge commit: the loop test is made depth + 1 times, as
\* often as a loop that counts depth down can pass it, and once more
WalkLoop(cs, branchPoints, featureLane, currentId, depth, commitToLane) ==
  LET Iterate(st) == WalkStep(cs, branchPoints, featureLane, st)
      Left(st) == st.exited
  IN WhileLoop(Iterate, Left, WalkStart(currentId, depth, commitToLane), depth + 1)

\* commitToLane after the while loop of one merge commit
WalkFeaturePath(cs, branchPoints, featureLane, currentId, depth, commitToLane) ==
  WalkLoop(cs, branchPoints, featureLane, currentId, depth, commitToLane).commitToLane

\* variant: every walk takes a new lane, the free list is only shifted
TakeLane_AlwaysNew(st) ==
  [lane |-> st.maxLaneUsed + 1,
   availableLanes |-> IF st.availableLanes = <<>> THEN <<>> ELSE Tail(st.availableLanes),
   maxLaneUsed |-> st.maxLaneUsed + 1, fresh |-> TRUE]

\* const featureLane = availableLanes.shift() || ++maxLaneUsed
TakeLane(st) ==
  IF st.availableLanes # <<>> /\ Head(st.availableLanes) # 0
  THEN [lane |-> Head(st.availableLanes), availableLanes |-> Tail(st.availableLanes),
        maxLaneUsed |-> st.maxLaneUsed, fresh |-> FALSE]
  ELSE [lane |-> st.maxLaneUsed + 1,
        availableLanes |-> IF st.availableLanes = <<>> THEN <<>> ELSE Tail(st.availableLanes),
        maxLaneUsed |-> st.maxLaneUsed + 1, fresh |-> TRUE]

\* variant: the lane of a finished walk is never returned to the free list
ReleaseLane_Forget(availableLanes, featureLane) == availableLanes

\* availableLanes.push(featureLane); availableLanes.sort(...)
ReleaseLane(availableLanes, featureLane) == SortNums(Append(availableLanes, featureLane))

\* variant: the walk starts from the last parent of the merge commit
FeaturePathStep_LastParent(cs, branchPoints, mergeCommit, st) ==
  LET t == TakeLane(st)
  IN [commitToLane |-> WalkFeaturePath(cs, branchPoints, t.lane,
                                       mergeCommit.parentIds[Len(mergeCommit.parentIds)],
                                       MaxDepth, st.commitToLane),
      availableLanes |-> ReleaseLane(t.availableLanes, t.lane),
      maxLaneUsed |-> t.maxLaneUsed,
      lanesTaken |-> Append(st.lanesTaken, t.lane)]

\* one iteration of the for loop over mergeCommits
FeaturePathStep(cs, branchPoints, mergeCommit, st) ==
  LET t == TakeLane(st)
  IN [commitToLane |-> WalkFeaturePath(cs, branchPoints, t.lane, mergeCommit.parentIds[2],
                                       MaxDepth, st.commitToLane),
      availableLanes |-> ReleaseLane(t.availableLanes, t.lane),
      maxLaneUsed |-> t.maxLaneUsed,
      lanesTaken |-> Append(st.lanesTaken, t.lane)]

\* variant: the free list starts empty
RECURSIVE FeaturePathLoop_NoFreeLane(_, _, _, _)
FeaturePathLoop_NoFreeLane(cs, branchPoints, mergeCommits, n) ==
  IF n = 0
  THEN [commitToLane |-> EmptyMap, availableLanes |-> <<>>, maxLaneUsed |-> 1,
        lanesTaken |-> <<>>]
  ELSE FeaturePathStep(cs, branchPoints, mergeCommits[n],
                       FeaturePathLoop_NoFreeLane(cs, branchPoints, mergeCommits, n - 1))

RECURSIVE FeaturePathLoop(_, _, _, _)
FeaturePathLoop(cs, branchPoints, mergeCommits, n) ==
  IF n = 0
  THEN [commitToLane |-> EmptyMap, availableLanes |-> <<1>>, maxLaneUsed |-> 1,
        lanesTaken |-> <<>>]
  ELSE FeaturePathStep(cs, branchPoints, mergeCommits[n],
                       FeaturePathLoop(cs, branchPoints, mergeCommits, n - 1))

\* the merge commits in chronological order
MergeCommits(cs) == sortCommitsByDate(SelectSeq(cs, IsMergeCommit))

findFeaturePaths(cs, branchPoints) ==
  FeaturePathLoop(cs, branchPoints, MergeCommits(cs), Len(MergeCommits(cs))).commitToLane

(***************************************************************************)
(* calculateMountainHeight                                                 *)
(***************************************************************************)
\* variant: no offset on feature lanes
calculateMountainHeight_Flat(commit, lane) == 0

calculateMountainHeight(commit, lane) == IF lane >= 1 THEN 40 ELSE 0

(***************************************************************************)
(* assignLanes                                                             *)
(***************************************************************************)
Includes(s, x) == \E i \in DOMAIN s : s[i] = x

\* variant: the lane is read before the increment
NewLane_PostIncrement(st, id) ==
  [st EXCEPT !.maxLaneUsed = @ + 1, !.laneMap = MapSet(@, id, st.maxLaneUsed)]

\* a fresh lane: maxLaneUsed++; laneMap.set(commit.id, maxLaneUsed)
NewLane(st, id) ==
  [st EXCEPT !.maxLaneUsed = @ + 1, !.laneMap = MapSet(@, id, st.maxLaneUsed + 1)]

\* variant: a child inherits the lane of its parent also when that lane is 0
UnmergedFeatureLane_InheritTrunk(commit, branchPoints, st) ==
  IF Len(commit.parentIds) >= 1 /\ commit.parentIds[1] \in DOMAIN st.laneMap
  THEN [st EXCEPT !.laneMap = MapSet(@, commit.id, st.laneMap[commit.parentIds[1]])]
  ELSE [st EXCEPT !.maxLaneUsed = @ + 1,
                  !.laneMap = MapSet(@, commit.id, st.maxLaneUsed + 1)]

\* variant: every child of a branch point starts a lane of its own
UnmergedFeatureLane_NeverContinue(commit, branchPoints, st) ==
  LET hasParent == Len(commit.parentIds) >= 1
      parentId  == commit.parentIds[1]
      noFirstChild == parentId \notin DOMAIN st.firstChildOfBranchPoint
  IN IF hasParent /\ parentId \in branchPoints
     THEN IF noFirstChild
          THEN [NewLane(st, commit.id) EXCEPT
                  !.firstChildOfBranchPoint = MapSet(@, parentId, commit.id)]
          ELSE NewLane(st, commit.id)
     ELSE IF hasParent /\ parentId \in DOMAIN st.laneMap
     THEN IF st.laneMap[parentId] = 0
          THEN NewLane(st, commit.id)
          ELSE [st EXCEPT !.laneMap = MapSet(@, commit.id, st.laneMap[parentId])]
     ELSE NewLane(st, commit.id)

\* variant: every child of a branch point on a feature lane continues that lane
UnmergedFeatureLane_AlwaysInherit(commit, branchPoints, st) ==
  LET hasParent == Len(commit.parentIds) >= 1
      parentId  == commit.parentIds[1]
      parentOnTrunk == parentId \notin DOMAIN st.laneMap \/ st.laneMap[parentId] = 0
      noFirstChild == parentId \notin DOMAIN st.firstChildOfBranchPoint
  IN IF hasParent /\ parentId \in branchPoints
     THEN IF parentOnTrunk
          THEN IF noFirstChild
               THEN [NewLane(st, commit.id) EXCEPT
                       !.firstChildOfBranchPoint = MapSet(@, parentId, commit.id)]
               ELSE NewLane(st, commit.id)
          ELSE [st EXCEPT !.laneMap = MapSet(@, commit.id, st.laneMap[parentId]),
                          !.firstChildOfBranchPoint = MapSet(@, parentId, commit.id)]
     ELSE IF hasParent /\ parentId \in DOMAIN st.laneMap
     THEN IF st.laneMap[parentId] = 0
          THEN NewLane(st, commit.id)
          ELSE [st EXCEPT !.laneMap = MapSet(@, commit.id, st.laneMap[parentId])]
     ELSE NewLane(st, commit.id)

\* step 5-3: a commit that is no merge, is on no feature path and lacks 'main'
UnmergedFeatureLane(commit, branchPoints, st) ==
  LET hasParent == Len(commit.parentIds) >= 1
      parentId  == commit.parentIds[1]
      \* parentLane === 0 || parentLane === undefined
      parentOnTrunk == parentId \notin DOMAIN st.laneMap \/ st.laneMap[parentId] = 0
      \* firstChild === undefined
      noFirstChild == parentId \notin DOMAIN st.firstChildOfBranchPoint
  IN IF hasParent /\ parentId \in branchPoints
     THEN IF parentOnTrunk
          THEN IF noFirstChild
               THEN [NewLane(st, commit.id) EXCEPT
                       !.firstChildOfBranchPoint = MapSet(@, parentId, commit.id)]
               ELSE NewLane(st, commit.id)
          ELSE IF noFirstChild
               THEN [st EXCEPT !.laneMap = MapSet(@, commit.id, st.laneMap[parentId]),
                               !.firstChildOfBranchPoint = MapSet(@, parentId, commit.id)]
               ELSE NewLane(st, commit.id)
     ELSE IF hasParent /\ parentId \in DOMAIN st.laneMap
     THEN IF st.laneMap[parentId] = 0
          THEN NewLane(st, commit.id)
          ELSE [st EXCEPT !.laneMap = MapSet(@, commit.id, st.laneMap[parentId])]
     ELSE NewLane(st, commit.id)

\* variant: a commit counts as trunk only when 'main' is its only branch name
AssignLaneStep_ExactMain(commit, branchPoints, commitToLane, st) ==
  IF Len(commit.parentIds) >= 2
  THEN [st EXCEPT !.laneMap = MapSet(@, commit.id, 0)]
  ELSE IF commit.id \in DOMAIN commitToLane
  THEN [st EXCEPT !.laneMap = MapSet(@, commit.id, commitToLane[commit.id])]
  ELSE IF commit.branchNames # <<"main">>
  THEN [st EXCEPT !.maxLaneUsed = @ + 1,
                  !.laneMap = MapSet(@, commit.id, st.maxLaneUsed + 1)]
  ELSE [st EXCEPT !.laneMap = MapSet(@, commit.id, 0)]

\* variant: the recorded feature lane is looked up before the merge test
AssignLaneStep_RecordedFirst(commit, branchPoints, commitToLane, st) ==
  IF commit.id \in DOMAIN commitToLane
  THEN [st EXCEPT !.laneMap = MapSet(@, commit.id, commitToLane[commit.id])]
  ELSE IF Len(commit.parentIds) >= 2 \/ Includes(commit.branchNames, "main")
  THEN [st EXCEPT !.laneMap = MapSet(@, commit.id, 0)]
  ELSE [st EXCEPT !.maxLaneUsed = @ + 1,
                  !.laneMap = MapSet(@, commit.id, st.maxLaneUsed + 1)]

\* one iteration of the for loop of step 5
AssignLaneStep(commit, branchPoints, commitToLane, st) ==
  IF IsMergeCommit(commit)
  THEN [st EXCEPT !.laneMap = MapSet(@, commit.id, 0)]
  ELSE IF commit.id \in DOMAIN commitToLane
  THEN [st EXCEPT !.laneMap = MapSet(@, commit.id, commitToLane[commit.id])]
  ELSE IF ~Includes(commit.branchNames, "main")
  THEN UnmergedFeatureLane(commit, branchPoints, st)
  ELSE [st EXCEPT !.laneMap = MapSet(@, commit.id, 0)]

\* variant: the running maximum starts at 0, whatever feature-path discovery recorded
AssignLaneLoop_StartAtZero(cs, branchPoints, commitToLane, n) ==
  LET Assign(st, i) == AssignLaneStep(cs[i], branchPoints, commitToLane, st)
  IN ForLoop(Assign,
             [laneMap |-> EmptyMap, firstChildOfBranchPoint |-> EmptyMap,
              maxLaneUsed |-> 0],
             1, n)

\* variant: the running maximum starts at 1, as in findFeaturePaths
AssignLaneLoop_StartAtOne(cs, branchPoints, commitToLane, n) ==
  LET Assign(st, i) == AssignLaneStep(cs[i], branchPoints, commitToLane, st)
  IN ForLoop(Assign,
             [laneMap |-> EmptyMap, firstChildOfBranchPoint |-> EmptyMap,
              maxLaneUsed |-> SetMax(Range(commitToLane) \cup {1})],
             1, n)

\* the for loop of step 5 over the first n commits
AssignLaneLoop(cs, branchPoints, commitToLane, n) ==
  LET Assign(st, i) == AssignLaneStep(cs[i], branchPoints, commitToLane, st)
  IN ForLoop(Assign,
             [laneMap |-> EmptyMap, firstChildOfBranchPoint |-> EmptyMap,
              maxLaneUsed |-> SetMax(Range(commitToLane) \cup {0})],
             1, n)

assignLanes(cs) ==
  LET branchPoints == findBranchPoints(cs)
      commitToLane == findFeaturePaths(cs, branchPoints)
  IN AssignLaneLoop(cs, branchPoints, commitToLane, Len(cs)).laneMap

(***************************************************************************)
(* calculateNodePositions                                                  *)
(***************************************************************************)
\* { ...commit, x, y, lane }
MakeNode(commit, x, y, lane) ==
  [id |-> commit.id, shortId |-> commit.shortId, date |-> commit.date,
   parentIds |-> commit.parentIds, branchNames |-> commit.branchNames,
   x |-> x, y |-> y, lane |-> lane]

NodePosition(commit, index, laneAssignments, cfg) ==
  LET lane  == IF commit.id \in DOMAIN laneAssignments THEN laneAssignments[commit.id] ELSE 0
      x     == index * cfg.nodeSpacing + cfg.startX
      baseY == lane * cfg.laneHeight + cfg.startY
  IN MakeNode(commit, x, baseY + calculateMountainHeight(commit, lane), lane)

\* variant: the index counts from 1
calculateNodePositions_OneBased(cs, laneAssignments, cfg) ==
  [i \in 1..Len(cs) |-> NodePosition(cs[i], i, laneAssignments, cfg)]

\* commits.map((commit, index) => ...): index counts from 0
calculateNodePositions(cs, laneAssignments, cfg) ==
  [i \in 1..Len(cs) |-> NodePosition(cs[i], i - 1, laneAssignments, cfg)]

(***************************************************************************)
(* generateConnections                                                     *)
(***************************************************************************)
\* new Map(nodes.map(node => [node.id, node])).get(id)
HasNode(nodes, id) == \E i \in DOMAIN nodes : nodes[i].id = id

NodeById(nodes, id) ==
  nodes[CHOOSE i \in DOMAIN nodes :
          nodes[i].id = id /\ \A j \in DOMAIN nodes : nodes[j].id = id => j <= i]

\* variant: the line ends at the child's own y
MakeConnection_ChildEnd(node, parentId, parentNode) ==
  [fromCommitId |-> node.id, toCommitId |-> parentId,
   startX |-> node.x, startY |-> node.y, endX |-> parentNode.x, endY |-> node.y,
   type |-> IF Len(node.parentIds) >= 2 THEN "merge" ELSE "normal"]

MakeConnection(node, parentId, parentNode) ==
  [fromCommitId |-> node.id, toCommitId |-> parentId,
   startX |-> node.x, startY |-> node.y, endX |-> parentNode.x, endY |-> parentNode.y,
   type |-> IF Len(node.parentIds) >= 2 THEN "merge" ELSE "normal"]

RECURSIVE NodeConnections_ResolvedCount(_, _, _)
NodeConnections_ResolvedCount(nodes, node, k) ==
  IF k = 0 THEN <<>>
  ELSE LET before == NodeConnections_ResolvedCount(nodes, node, k - 1)
           parentId == node.parentIds[k]
           resolved == [node EXCEPT !.parentIds =
                          SelectSeq(node.parentIds, LAMBDA p : HasNode(nodes, p))]
       IN IF HasNode(nodes, parentId)
          THEN Append(before, MakeConnection(resolved, parentId, NodeById(nodes, parentId)))
          ELSE before

\* the inner loop: the connections of the first k parentIds of node
RECURSIVE NodeConnections(_, _, _)
NodeConnections(nodes, node, k) ==
  IF k = 0 THEN <<>>
  ELSE LET before == NodeConnections(nodes, node, k - 1)
           parentId == node.parentIds[k]
       IN IF HasNode(nodes, parentId)
          THEN Append(before, MakeConnection(node, parentId, NodeById(nodes, parentId)))
          ELSE before

\* the outer loop: the connections of the first n nodes
ConnectionsUpTo(nodes, n) ==
  LET Connect(connections, i) ==
        connections \o NodeConnections(nodes, nodes[i], Len(nodes[i].parentIds))
  IN ForLoop(Connect, <<>>, 1, n)

generateConnections(nodes) == ConnectionsUpTo(nodes, Len(nodes))

(***************************************************************************)
(* generateBranchLanes: group the node ids by lane; the records come in    *)
(* the order in which the lanes first appear (Map insertion order).        *)
(***************************************************************************)
RECURSIVE AddToLane_Prepend(_, _)
AddToLane_Prepend(lanes, node) ==
  IF lanes = <<>> THEN <<[laneNumber |-> node.lane, commitIds |-> <<node.id>>]>>
  ELSE IF Head(lanes).laneNumber = node.lane
  THEN <<[Head(lanes) EXCEPT !.commitIds = <<node.id>> \o @]>> \o Tail(lanes)
  ELSE <<Head(lanes)>> \o AddToLane_Prepend(Tail(lanes), node)

RECURSIVE AddToLane(_, _)
AddToLane(lanes, node) ==
  IF lanes = <<>> THEN <<[laneNumber |-> node.lane, commitIds |-> <<node.id>>]>>
  ELSE IF Head(lanes).laneNumber = node.lane
  THEN <<[Head(lanes) EXCEPT !.commitIds = Append(@, node.id)]>> \o Tail(lanes)
  ELSE <<Head(lanes)>> \o AddToLane(Tail(lanes), node)

BranchLanesUpTo(nodes, n) ==
  LET Add(lanes, i) == AddToLane(lanes, nodes[i])
  IN ForLoop(Add, <<>>, 1, n)

generateBranchLanes(nodes) == BranchLanesUpTo(nodes, Len(nodes))

(***************************************************************************)
(* assignBranchNamesToLanes.  An optional branchName is a sequence of at   *)
(* most one name: <<>> is undefined.  Strings are compared through their   *)
(* position in NameOrder, the names of the inputs in code-unit order.      *)
(***************************************************************************)
NameOrder == <<"dev", "feature", "main">>

NameRank(name) == CHOOSE i \in DOMAIN NameOrder : NameOrder[i] = name

\* latestNode.branchNames.filter((name) => name !== 'main')
IsNotMain(name) == name # "main"

\* candidateBranches.sort()[0]
SmallestName(names) ==
  CHOOSE n \in Range(names) : \A m \in Range(names) : NameRank(n) <= NameRank(m)

MatchingBranchName_Last(lane, branches) ==
  LET hits == {i \in DOMAIN branches : Includes(lane.commitIds, branches[i].latestCommitId)}
  IN IF hits = {} THEN <<>>
     ELSE <<branches[CHOOSE i \in hits : \A j \in hits : i >= j].name>>

\* branches.find((branch) => lane.commitIds.includes(branch.latestCommitId))?.name
MatchingBranchName(lane, branches) ==
  LET hits == {i \in DOMAIN branches : Includes(lane.commitIds, branches[i].latestCommitId)}
  IN IF hits = {} THEN <<>>
     ELSE <<branches[CHOOSE i \in hits : \A j \in hits : i <= j].name>>

LaneBranchName_NoTrunkRule(lane, nodes, branches) ==
  LET latestCommitId == lane.commitIds[Len(lane.commitIds)]
      candidateBranches == SelectSeq(NodeById(nodes, latestCommitId).branchNames, IsNotMain)
  IN IF Len(candidateBranches) = 0
     THEN MatchingBranchName(lane, branches)
     ELSE <<SmallestName(candidateBranches)>>

LaneBranchName(lane, nodes, branches) ==
  IF lane.laneNumber = 0 THEN <<"main">>
  ELSE LET latestCommitId == lane.commitIds[Len(lane.commitIds)]
       IN IF ~HasNode(nodes, latestCommitId) THEN <<>>
          ELSE LET candidateBranches ==
                     SelectSeq(NodeById(nodes, latestCommitId).branchNames, IsNotMain)
               IN IF Len(candidateBranches) = 0
                  THEN MatchingBranchName(lane, branches)
                  ELSE <<SmallestName(candidateBranches)>>

\* variant: a lane for which no name is found is left out
assignBranchNamesToLanes_NamedOnly(lanes, nodes, branches) ==
  LET Named(lane) == lane.branchName # <<>>
  IN SelectSeq([i \in 1..Len(lanes) |->
                  [laneNumber |-> lanes[i].laneNumber, commitIds |-> lanes[i].commitIds,
                   branchName |-> LaneBranchName(lanes[i], nodes, branches)]],
               Named)

assignBranchNamesToLanes(lanes, nodes, branches) ==
  [i \in 1..Len(lanes) |->
     [laneNumber |-> lanes[i].laneNumber, commitIds |-> lanes[i].commitIds,
      branchName |-> LaneBranchName(lanes[i], nodes, branches)]]

(***************************************************************************)
(* calculateViewBox                                                        *)
(***************************************************************************)
calculateViewBox_LaneCount(nodes, cfg) ==
  IF Len(nodes) = 0 THEN [width |-> 0, height |-> 0]
  ELSE LET maxX == SetMax({nodes[i].x : i \in DOMAIN nodes})
           lanesUsed == Cardinality({nodes[i].lane : i \in DOMAIN nodes})
       IN [width |-> maxX + cfg.nodeSpacing,
           height |-> lanesUsed * cfg.laneHeight + cfg.startY * 2]

calculateViewBox(nodes, cfg) ==
  IF Len(nodes) = 0 THEN [width |-> 0, height |-> 0]
  ELSE LET maxX    == SetMax({nodes[i].x : i \in DOMAIN nodes})
           maxLane == SetMax({nodes[i].lane : i \in DOMAIN nodes})
       IN [width |-> maxX + cfg.nodeSpacing,
           height |-> (maxLane + 1) * cfg.laneHeight + cfg.startY * 2]

(***************************************************************************)
(* calculateGitGraphLayout                                                 *)
(***************************************************************************)
EmptyLayout_Padded ==
  [nodes |-> <<>>, connections |-> <<>>, lanes |-> <<>>,
   viewBox |-> [width |-> DEFAULT_LAYOUT_CONFIG.nodeSpacing,
                height |-> DEFAULT_LAYOUT_CONFIG.laneHeight
                             + DEFAULT_LAYOUT_CONFIG.startY * 2]]

EmptyLayout ==
  [nodes |-> <<>>, connections |-> <<>>, lanes |-> <<>>,
   viewBox |-> [width |-> 0, height |-> 0]]

calculateGitGraphLayout(cs, boc, cfg) ==
  LET branches     == ResolveBranches(boc)
      layoutConfig == ResolveConfig(boc, cfg)
  IN IF Len(cs) = 0 THEN EmptyLayout
     ELSE LET sortedCommits   == sortCommitsByDate(cs)
              laneAssignments == assignLanes(sortedCommits)
              nodes           == calculateNodePositions(sortedCommits, laneAssignments,
                                                        layoutConfig)
          IN [nodes |-> nodes,
              connections |-> generateConnections(nodes),
              lanes |-> assignBranchNamesToLanes(generateBranchLanes(nodes), nodes, branches),
              viewBox |-> calculateViewBox(nodes, layoutConfig)]

(***************************************************************************)
(* Inputs.  The caller assembles the commit list, then calls               *)
(* calculateGitGraphLayout once with one of the argument forms.            *)
(*  - graph inputs: up to MaxCommits commits listed oldest first, every    *)
(*    commit graph whose parents are older commits or an id outside the    *)
(*    input (a truncated history);                                         *)
(*  - dated inputs: up to MaxDatedCommits commits with arbitrary           *)
(*    timestamps in 1..MaxDate (ties, any input order), laid out under     *)
(*    several configs.                                                     *)
(***************************************************************************)
\* an id that no commit of the input has
DanglingId == MaxCommits + MaxDatedCommits + 1

MakeCommit(id, date, parentIds, branchNames) ==
  [id |-> id, shortId |-> id, date |-> date, parentIds |-> parentIds,
   branchNames |-> branchNames]

\* parents of the i-th commit in time: none, one or two of the earlier ids or a dangling id
ParentOptions(i) ==
  LET known == (1..(i - 1)) \cup {DanglingId}
  IN {<<>>} \cup {<<p>> : p \in known}
            \cup {<<pq[1], pq[2]>> : pq \in {x \in known \X known : x[1] # x[2]}}

GraphBranchNames == {<<"main">>, <<"feature">>}

\* parents of a dated commit: none, or the commit listed before it (a dangling id for the first)
DatedParentOptions(i) == {<<>>, IF i = 1 THEN <<DanglingId>> ELSE <<i - 1>>}

DatedBranchNames == {<<"main">>, <<"feature">>, <<"feature", "main">>, <<"feature", "dev">>}

\* the config of the repository's tests, a unit grid, and a grid without spacing
TestConfig == [nodeSpacing |-> 80, laneHeight |-> 60, startX |-> 50, startY |-> 200,
               nodeRadius |-> 8]

PartialConfigs ==
  {<<>>, TestConfig, [nodeSpacing |-> 1, laneHeight |-> 1, startX |-> 0, startY |-> 0],
   [nodeSpacing |-> 0]}

NoBranchesArg == [kind |-> "undefined"]
BranchesArg(branches) == [kind |-> "array", branches |-> branches]
ConfigArg(cfg) == [kind |-> "object", config |-> cfg]

MakeBranch(name, latestCommitId) == [name |-> name, latestCommitId |-> latestCommitId]

\* the (branchesOrConfig, config) pairs a call is made with
GraphArgs(cs) ==
  {<<NoBranchesArg, <<>>>>, <<BranchesArg(<<>>), <<>>>>,
   <<BranchesArg(<<MakeBranch("dev", Len(cs))>>), <<>>>>,
   <<BranchesArg(<<MakeBranch("feature", 2), MakeBranch("dev", 3)>>), <<>>>>}

DatedArgs(cs) ==
  {<<ConfigArg(c), <<>>>> : c \in PartialConfigs \ {<<>>}}
  \cup {<<BranchesArg(<<>>), c>> : c \in PartialConfigs}
  \cup {<<BranchesArg(<<MakeBranch("dev", 1), MakeBranch("main", Len(cs))>>), TestConfig>>}

\* parents of a commit of a loose input: none, or one or two of any ids of the
\* input (itself and later commits included) or a dangling id, or a dangling
\* id followed by two different ids of the input (an octopus merge)
LooseParentOptions ==
  LET own == 1..MaxLooseCommits
      ids == own \cup {DanglingId}
  IN {<<>>} \cup {<<p>> : p \in ids} \cup {<<pq[1], pq[2]>> : pq \in ids \X ids}
            \cup {<<DanglingId, pq[1], pq[2]>> : pq \in {x \in own \X own : x[1] # x[2]}}

\* parents of the i-th commit of a chain input: its predecessor, or the root and
\* its predecessor (the merge of the chain into its root)
ChainParentOptions(i) ==
  IF i = 1 THEN {<<>>}
  ELSE IF i = 2 THEN {<<1>>}
  ELSE {<<i - 1>>, <<1, i - 1>>}

LooseArgs == {<<NoBranchesArg, <<>>>>}

\* parents of a commit of an unordered input: none, any one id of the input
\* (itself and newer commits included) or a dangling id, or a dangling id
\* followed by any id of the input (a merge of that commit)
UnorderedParentOptions ==
  LET own == 1..MaxUnorderedCommits
  IN {<<>>} \cup {<<p>> : p \in own \cup {DanglingId}} \cup {<<DanglingId, p>> : p \in own}

\* no invocation has been made
NothingPassed == [commits |-> <<>>, branchesOrConfig |-> NoBranchesArg, config |-> <<>>]

\* the caller starts with an empty list, to be filled with a graph input
\* (pc = "graph") or with a dated input (pc = "dated")
Init ==
  /\ commits = <<>>
  /\ pc \in {"graph", "dated"}
  /\ branchesOrConfig = NoBranchesArg
  /\ config = <<>>
  /\ layout = EmptyLayout
  /\ passed = NothingPassed

(***************************************************************************)
(* The caller appends the next (newer) commit of a graph input.            *)
(***************************************************************************)
AddCommit ==
  /\ pc = "graph"
  /\ Len(commits) < MaxCommits
  /\ \E p \in ParentOptions(Len(commits) + 1), b \in GraphBranchNames :
       commits' = Append(commits, MakeCommit(Len(commits) + 1, Len(commits) + 1, p, b))
  /\ UNCHANGED <<branchesOrConfig, config, layout, pc, passed>>

(***************************************************************************)
(* The caller appends a commit of any timestamp to a dated input.          *)
(***************************************************************************)
AddDatedCommit ==
  /\ pc = "dated"
  /\ Len(commits) < MaxDatedCommits
  /\ \E d \in 1..MaxDate, p \in DatedParentOptions(Len(commits) + 1), b \in DatedBranchNames :
       commits' = Append(commits, MakeCommit(Len(commits) + 1, d, p, b))
  /\ UNCHANGED <<branchesOrConfig, config, layout, pc, passed>>

(***************************************************************************)
(* The caller appends a commit whose parentIds are not checked against the *)
(* list: first-parent cycles, self-parents and repeated parents occur.     *)
(***************************************************************************)
AddLooseCommit ==
  /\ pc = "loose"
  /\ Len(commits) < MaxLooseCommits
  /\ \E p \in LooseParentOptions :
       commits' = Append(commits, MakeCommit(Len(commits) + 1, Len(commits) + 1, p, <<"main">>))
  /\ UNCHANGED <<branchesOrConfig, config, layout, pc, passed>>

(***************************************************************************)
(* The caller appends the next commit of a long linear history, which a    *)
(* merge into the root commit ends.                                        *)
(***************************************************************************)
AddChainCommit ==
  /\ pc = "chain"
  /\ Len(commits) < MaxChainCommits
  /\ commits # <<>> => ~IsMergeCommit(commits[Len(commits)])
  /\ \E p \in ChainParentOptions(Len(commits) + 1) :
       commits' = Append(commits, MakeCommit(Len(commits) + 1, Len(commits) + 1, p, <<"main">>))
  /\ UNCHANGED <<branchesOrConfig, config, layout, pc, passed>>

(***************************************************************************)
(* The caller appends a commit on 'main' or on a feature branch whose      *)
(* parent may be any commit of the list, a newer one included.             *)
(***************************************************************************)
AddUnorderedCommit ==
  /\ pc = "unordered"
  /\ Len(commits) < MaxUnorderedCommits
  /\ \E p \in UnorderedParentOptions, b \in GraphBranchNames :
       commits' = Append(commits, MakeCommit(Len(commits) + 1, Len(commits) + 1, p, b))
  /\ UNCHANGED <<branchesOrConfig, config, layout, pc, passed>>

(***************************************************************************)
(* One invocation of calculateGitGraphLayout.  The function sorts with     *)
(* Array.prototype.sort, which reorders the array it is called on: always  *)
(* a copy ([...commits], the result of filter), so that the caller's       *)
(* objects are only read.                                                  *)
(***************************************************************************)
\* variant: sortCommitsByDate sorts the commits argument itself
Calculate_SortInPlace ==
  /\ pc \in {"graph", "dated", "loose", "chain", "unordered"}
  /\ \E a \in IF pc = "graph" THEN GraphArgs(commits)
             ELSE IF pc = "dated" THEN DatedArgs(commits)
             ELSE LooseArgs :
       /\ passed' = [commits |-> commits, branchesOrConfig |-> a[1], config |-> a[2]]
       /\ branchesOrConfig' = a[1]
       /\ config' = a[2]
       /\ layout' = calculateGitGraphLayout(commits, a[1], a[2])
  /\ pc' = "returned"
  /\ commits' = sortCommitsByDate(commits)

Calculate ==
  /\ pc \in {"graph", "dated", "loose", "chain", "unordered"}
  /\ \E a \in IF pc = "graph" THEN GraphArgs(commits)
             ELSE IF pc = "dated" THEN DatedArgs(commits)
             ELSE LooseArgs :
       /\ passed' = [commits |-> commits, branchesOrConfig |-> a[1], config |-> a[2]]
       /\ branchesOrConfig' = a[1]
       /\ config' = a[2]
       /\ layout' = calculateGitGraphLayout(commits, a[1], a[2])
  /\ pc' = "returned"
  /\ UNCHANGED commits

Next == AddCommit \/ AddDatedCommit \/ Calculate

Spec == Init /\ [][Next]_vars

(***************************************************************************)
(* The inputs that stress the backward walk of findFeaturePaths: loose     *)
(* inputs (pc = "loose") and chain inputs (pc = "chain").                  *)
(***************************************************************************)
InitWalk ==
  /\ commits = <<>>
  /\ pc \in {"loose", "chain"}
  /\ branchesOrConfig = NoBranchesArg
  /\ config = <<>>
  /\ layout = EmptyLayout
  /\ passed = NothingPassed

NextWalk == AddLooseCommit \/ AddChainCommit \/ Calculate

SpecWalk == InitWalk /\ [][NextWalk]_vars

(***************************************************************************)
(* The inputs that stress the order in which assignLanes meets parents and *)
(* children: unordered inputs (pc = "unordered").                          *)
(***************************************************************************)
InitLanes ==
  /\ commits = <<>>
  /\ pc = "unordered"
  /\ branchesOrConfig = NoBranchesArg
  /\ config = <<>>
  /\ layout = EmptyLayout
  /\ passed = NothingPassed

NextLanes == AddUnorderedCommit \/ Calculate

SpecLanes == InitLanes /\ [][NextLanes]_vars

(***************************************************************************)
(* Vocabulary of the properties.                                           *)
(***************************************************************************)
Returned == pc = "returned"

\* the chronological order and what lane assignment derives from it
Sorted == sortCommitsByDate(commits)
BranchPoints == findBranchPoints(Sorted)
CommitIds == {commits[i].id : i \in DOMAIN commits}

\* the ids that feature-path discovery recorded
RecordedIds == DOMAIN findFeaturePaths(Sorted, BranchPoints)

NodeIndex(id) == CHOOSE i \in DOMAIN layout.nodes : layout.nodes[i].id = id
LaneOf(id) == layout.nodes[NodeIndex(id)].lane

HasMain(c) == \E i \in DOMAIN c.branchNames : c.branchNames[i] = "main"

\* the commits on the feature path of merge commit m: the first-parent chain
\* from its second parent up to, and without, the nearest branch point
PathCommits(m) ==
  DOMAIN WalkFeaturePath(Sorted, BranchPoints, 1, m.parentIds[2], MaxDepth, EmptyMap)
    \cap CommitIds

MergeNodes == {i \in DOMAIN layout.nodes : Len(layout.nodes[i].parentIds) >= 2}

\* the two paths are disjoint, non-empty and hold no merge commit
PlainPaths(i, j) ==
  LET Pi == PathCommits(layout.nodes[i])
      Pj == PathCommits(layout.nodes[j])
  IN /\ Pi # {} /\ Pj # {} /\ Pi \cap Pj = {}
     /\ \A c \in Pi \cup Pj : NodeIndex(c) \notin MergeNodes

\* some commit of the path of merge j lies between the first commit of the
\* path of merge i and merge i
Concurrent(i, j) ==
  \E c \in PathCommits(layout.nodes[j]) :
    /\ NodeIndex(c) < i
    /\ \E a \in PathCommits(layout.nodes[i]) : NodeIndex(a) < NodeIndex(c)

\* every commit of the path of merge i, and merge i, precede the path of merge j
Sequential(i, j) ==
  \A c \in PathCommits(layout.nodes[j]) :
    /\ i < NodeIndex(c)
    /\ \A a \in PathCommits(layout.nodes[i]) : NodeIndex(a) < NodeIndex(c)

(***************************************************************************)
(* Lane assignment.                                                        *)
(***************************************************************************)
\* C1: two merged feature paths that are active at the same time lie on
\* different lanes.
C1_ConcurrentPathsDistinctLanes ==
  Returned =>
    \A i \in MergeNodes, j \in MergeNodes :
      (i # j /\ PlainPaths(i, j) /\ Concurrent(i, j)) =>
        \A a \in PathCommits(layout.nodes[i]), b \in PathCommits(layout.nodes[j]) :
          LaneOf(a) # LaneOf(b)

\* C2 as stated: every commit carrying 'main' is on lane 0, also on a feature path.
C2_EveryMainCommitOnLaneZero ==
  Returned => \A i \in DOMAIN layout.nodes : HasMain(layout.nodes[i]) => layout.nodes[i].lane = 0

\* C2 amended: a commit carrying 'main' is on lane 0 when it is a merge commit or
\* was not recorded by feature-path discovery; a recorded non-merge commit
\* carrying 'main' is on a lane >= 1.
C2_MainCommitOffFeaturePathOnLaneZero ==
  Returned =>
    \A i \in DOMAIN layout.nodes :
      HasMain(layout.nodes[i]) =>
        IF i \in MergeNodes \/ layout.nodes[i].id \notin RecordedIds
        THEN layout.nodes[i].lane = 0
        ELSE layout.nodes[i].lane >= 1

\* a commit carrying 'main' off every feature path on lane 0, laid out next to
\* a recorded commit carrying 'main' on a lane >= 1
C2_Witness ==
  /\ Returned
  /\ \E i \in DOMAIN layout.nodes :
       /\ HasMain(layout.nodes[i]) /\ i \notin MergeNodes
       /\ layout.nodes[i].id \notin RecordedIds
       /\ layout.nodes[i].lane = 0
  /\ \E i \in DOMAIN layout.nodes :
       /\ HasMain(layout.nodes[i]) /\ layout.nodes[i].id \in RecordedIds
       /\ layout.nodes[i].lane >= 1

\* C3: every commit with two or more parents is on lane 0.
C3_MergeCommitOnLaneZero ==
  Returned => \A i \in MergeNodes : layout.nodes[i].lane = 0

\* a merge commit lacking 'main' that feature-path discovery recorded on a lane
C3_Witness ==
  /\ Returned
  /\ \E i \in MergeNodes :
       /\ layout.nodes[i].id \in RecordedIds
       /\ ~HasMain(layout.nodes[i])
       /\ layout.nodes[i].lane = 0

\* C4: a node on lane 0 is a merge commit or carries 'main'.
C4_LaneZeroIsTrunkOrMerge ==
  Returned =>
    \A i \in DOMAIN layout.nodes :
      layout.nodes[i].lane = 0 => (i \in MergeNodes \/ HasMain(layout.nodes[i]))

\* a non-merge commit lacking 'main' whose first parent is on lane 0
C4_Witness ==
  /\ Returned
  /\ \E i \in DOMAIN layout.nodes :
       /\ i \notin MergeNodes /\ ~HasMain(layout.nodes[i])
       /\ Len(layout.nodes[i].parentIds) = 1
       /\ layout.nodes[i].parentIds[1] \in CommitIds
       /\ LaneOf(layout.nodes[i].parentIds[1]) = 0
       /\ layout.nodes[i].lane >= 1

\* the call passed no branches: the argument was omitted, a config, or an empty array
NoBranches == ResolveBranches(branchesOrConfig) = <<>>

\* C5 as stated: without branches every commit is on lane 0.
C5_NoBranchesAllOnLaneZero ==
  (Returned /\ NoBranches) => \A i \in DOMAIN layout.nodes : layout.nodes[i].lane = 0

\* C5 amended: without branches a commit is on lane 0 exactly when it is a merge
\* commit, or carries 'main' and was not recorded by feature-path discovery.
C5_NoBranchesLaneZeroIffTrunk ==
  (Returned /\ NoBranches) =>
    \A i \in DOMAIN layout.nodes :
      layout.nodes[i].lane = 0 <=>
        \/ i \in MergeNodes
        \/ HasMain(layout.nodes[i]) /\ layout.nodes[i].id \notin RecordedIds

\* a call without branches that puts commits on lane 0, lane 1 and lane 2
C5_Witness ==
  /\ Returned /\ NoBranches
  /\ \A l \in 0..2 : \E i \in DOMAIN layout.nodes : layout.nodes[i].lane = l

\* C6 as stated: the commits of two sequential feature paths share a lane.
C6_SequentialPathsShareLane ==
  Returned =>
    \A i \in MergeNodes, j \in MergeNodes :
      (i # j /\ Sequential(i, j)) =>
        \A a \in PathCommits(layout.nodes[i]), b \in PathCommits(layout.nodes[j]) :
          LaneOf(a) = LaneOf(b)

\* C6 amended: the non-merge commits of two sequential feature paths share
\* lane 1, the smallest free lane.
C6_SequentialPlainPathsShareLaneOne ==
  Returned =>
    \A i \in MergeNodes, j \in MergeNodes :
      (i # j /\ Sequential(i, j)) =>
        \A a \in PathCommits(layout.nodes[i]) \cup PathCommits(layout.nodes[j]) :
          NodeIndex(a) \notin MergeNodes => LaneOf(a) = 1

\* two sequential feature paths, each with a non-merge commit
C6_Witness ==
  /\ Returned
  /\ \E i \in MergeNodes, j \in MergeNodes :
       /\ i # j /\ Sequential(i, j) /\ PlainPaths(i, j)

(***************************************************************************)
(* Nodes and their coordinates.                                            *)
(***************************************************************************)
LayoutConfig == ResolveConfig(branchesOrConfig, config)

InputIndex(id) == CHOOSE i \in DOMAIN commits : commits[i].id = id

\* the node carries the fields of the commit
SameFields(node, commit) ==
  /\ node.id = commit.id /\ node.shortId = commit.shortId /\ node.date = commit.date
  /\ node.parentIds = commit.parentIds /\ node.branchNames = commit.branchNames

\* C7: one node per input commit, in ascending order of timestamp, commits of
\* equal timestamp in input order, each node with its commit's fields.
C7_NodesAreCommitsInStableDateOrder ==
  Returned =>
    /\ Len(layout.nodes) = Len(commits)
    /\ \A i \in DOMAIN commits :
         \E k \in DOMAIN layout.nodes :
           /\ SameFields(layout.nodes[k], commits[i])
           /\ \A l \in DOMAIN layout.nodes : layout.nodes[l].id = commits[i].id => l = k
    /\ \A k \in DOMAIN layout.nodes, l \in DOMAIN layout.nodes :
         k < l =>
           \/ layout.nodes[k].date < layout.nodes[l].date
           \/ /\ layout.nodes[k].date = layout.nodes[l].date
              /\ InputIndex(layout.nodes[k].id) < InputIndex(layout.nodes[l].id)

\* an input with two commits of one timestamp and a commit listed before an older one
C7_Witness ==
  /\ Returned
  /\ \E i \in DOMAIN commits, j \in DOMAIN commits :
       i < j /\ commits[i].date = commits[j].date
  /\ \E i \in DOMAIN commits, j \in DOMAIN commits :
       i < j /\ commits[i].date > commits[j].date

\* C8: the node at index i (from 0) has x = i * nodeSpacing + startX; with
\* nodeSpacing > 0 an earlier timestamp means a smaller x and no x is shared.
C8_XFromChronologicalIndex ==
  Returned =>
    /\ \A k \in DOMAIN layout.nodes :
         layout.nodes[k].x = (k - 1) * LayoutConfig.nodeSpacing + LayoutConfig.startX
    /\ LayoutConfig.nodeSpacing > 0 =>
         \A k \in DOMAIN layout.nodes, l \in DOMAIN layout.nodes :
           /\ layout.nodes[k].date < layout.nodes[l].date =>
                layout.nodes[k].x < layout.nodes[l].x
           /\ k # l => layout.nodes[k].x # layout.nodes[l].x

\* a layout under a config of its own whose input lists a newer commit first
C8_Witness ==
  /\ Returned
  /\ LayoutConfig.nodeSpacing = 1 /\ LayoutConfig.startX = 0
  /\ \E i \in DOMAIN commits, j \in DOMAIN commits :
       /\ i < j /\ commits[i].date > commits[j].date
       /\ layout.nodes[NodeIndex(commits[j].id)].x < layout.nodes[NodeIndex(commits[i].id)].x

ResolvedParents ==
  {nk \in (DOMAIN layout.nodes) \X (1..2) :
     /\ nk[2] \in DOMAIN layout.nodes[nk[1]].parentIds
     /\ HasNode(layout.nodes, layout.nodes[nk[1]].parentIds[nk[2]])}

\* the connection joins node n to its parent entry k, with both nodes' coordinates
Joins(c, n, k) ==
  LET child  == layout.nodes[n]
      parent == layout.nodes[NodeIndex(child.parentIds[k])]
  IN /\ c.fromCommitId = child.id /\ c.toCommitId = parent.id
     /\ c.startX = child.x /\ c.startY = child.y
     /\ c.endX = parent.x /\ c.endY = parent.y

\* C10: exactly one connection per (node, parent entry) pair whose parent is in
\* the layout, from the child's to the parent's coordinates, and no other.
C10_OneConnectionPerResolvedParent ==
  Returned =>
    /\ Len(layout.connections) = Cardinality(ResolvedParents)
    /\ \A nk \in ResolvedParents :
         Cardinality({c \in DOMAIN layout.connections :
                        Joins(layout.connections[c], nk[1], nk[2])}) = 1
    /\ \A c \in DOMAIN layout.connections :
         \E nk \in ResolvedParents : Joins(layout.connections[c], nk[1], nk[2])

\* a layout with a merge commit of one dangling and one resolved parent, a root
\* commit and a connection between different lanes
C10_Witness ==
  /\ Returned
  /\ \E n \in MergeNodes :
       /\ ~HasNode(layout.nodes, layout.nodes[n].parentIds[1])
       /\ HasNode(layout.nodes, layout.nodes[n].parentIds[2])
  /\ \E n \in DOMAIN layout.nodes : layout.nodes[n].parentIds = <<>>
  /\ \E c \in DOMAIN layout.connections :
       layout.connections[c].startY # layout.connections[c].endY

\* C11: a connection has type 'merge' exactly when its source commit lists two
\* or more parentIds, dangling ones included; every other connection has
\* type 'normal'.
C11_MergeTypeIffTwoParentIds ==
  Returned =>
    \A c \in DOMAIN layout.connections :
      LET conn == layout.connections[c]
          source == layout.nodes[NodeIndex(conn.fromCommitId)]
      IN /\ conn.type \in {"merge", "normal"}
         /\ conn.type = "merge" <=> Len(source.parentIds) >= 2

\* a layout where a merge commit with one dangling parent emits its only
\* connection as 'merge', next to a 'normal' connection
C11_Witness ==
  /\ Returned
  /\ \E n \in MergeNodes :
       /\ Cardinality({k \in 1..2 : HasNode(layout.nodes, layout.nodes[n].parentIds[k])}) = 1
       /\ \E c \in DOMAIN layout.connections :
            /\ layout.connections[c].fromCommitId = layout.nodes[n].id
            /\ layout.connections[c].type = "merge"
  /\ \E c \in DOMAIN layout.connections : layout.connections[c].type = "normal"

(***************************************************************************)
(* Lane records.                                                           *)
(***************************************************************************)
\* the ids of the nodes on lane l, in node list order
LaneNodeIds(l) ==
  LET OnLane(n) == n.lane = l
      onLane == SelectSeq(layout.nodes, OnLane)
  IN [i \in 1..Len(onLane) |-> onLane[i].id]

\* the (record, position) pairs at which a commit id is listed in layout.lanes
Occurrences(id) ==
  {rk \in (DOMAIN layout.lanes) \X (DOMAIN layout.nodes) :
     /\ rk[2] \in DOMAIN layout.lanes[rk[1]].commitIds
     /\ layout.lanes[rk[1]].commitIds[rk[2]] = id}

\* C12: layout.lanes has exactly one record per lane number used by a node,
\* no record is empty, every node id is in exactly one record, the record of
\* its lane, and each record lists its commit ids in node list order.
C12_LanesPartitionNodes ==
  Returned =>
    /\ {layout.lanes[r].laneNumber : r \in DOMAIN layout.lanes}
         = {layout.nodes[n].lane : n \in DOMAIN layout.nodes}
    /\ \A r, q \in DOMAIN layout.lanes :
         layout.lanes[r].laneNumber = layout.lanes[q].laneNumber => r = q
    /\ \A r \in DOMAIN layout.lanes : layout.lanes[r].commitIds # <<>>
    /\ \A n \in DOMAIN layout.nodes :
         \E rk \in Occurrences(layout.nodes[n].id) :
           /\ Occurrences(layout.nodes[n].id) = {rk}
           /\ layout.lanes[rk[1]].laneNumber = layout.nodes[n].lane
    /\ \A r \in DOMAIN layout.lanes :
         layout.lanes[r].commitIds = LaneNodeIds(layout.lanes[r].laneNumber)

\* a layout with three lane records, one of them holding two or more commits
\* that are not adjacent in the node list
C12_Witness ==
  /\ Returned
  /\ Len(layout.lanes) >= 3
  /\ \E r \in DOMAIN layout.lanes :
       /\ Len(layout.lanes[r].commitIds) >= 2
       /\ NodeIndex(layout.lanes[r].commitIds[2]) > NodeIndex(layout.lanes[r].commitIds[1]) + 1

Branches == ResolveBranches(branchesOrConfig)

\* the chronologically last commit of lane record r
LastNode(r) ==
  layout.nodes[NodeIndex(layout.lanes[r].commitIds[Len(layout.lanes[r].commitIds)])]

\* the names of the last commit of lane record r other than 'main'
OtherNames(r) == Range(LastNode(r).branchNames) \ {"main"}

\* the entries of the branches list whose latestCommitId is listed in lane record r
MatchingEntries(r) ==
  {b \in DOMAIN Branches :
     \E k \in DOMAIN layout.lanes[r].commitIds :
       layout.lanes[r].commitIds[k] = Branches[b].latestCommitId}

\* C13: the record of a lane >= 1 is named after its last commit: the smallest
\* of that commit's names other than 'main' in string order; when there is
\* none, the name of the first entry of branches whose latestCommitId is in
\* the record, and no name when no entry matches.
C13_LaneNameFromLastCommit ==
  Returned =>
    \A r \in DOMAIN layout.lanes :
      layout.lanes[r].laneNumber >= 1 =>
        IF OtherNames(r) # {}
        THEN \E n \in OtherNames(r) :
               /\ \A m \in OtherNames(r) : NameRank(n) <= NameRank(m)
               /\ layout.lanes[r].branchName = <<n>>
        ELSE IF MatchingEntries(r) = {}
        THEN layout.lanes[r].branchName = <<>>
        ELSE \E b \in MatchingEntries(r) :
               /\ \A d \in MatchingEntries(r) : b <= d
               /\ layout.lanes[r].branchName = <<Branches[b].name>>

\* a record of a lane >= 1 whose last commit is only on 'main' and whose
\* commits are named by two entries of branches with different names
C13_Witness ==
  /\ Returned
  /\ \E r \in DOMAIN layout.lanes :
       /\ layout.lanes[r].laneNumber >= 1
       /\ OtherNames(r) = {}
       /\ \E b, d \in MatchingEntries(r) : Branches[b].name # Branches[d].name

MaxNodeX == SetMax({layout.nodes[n].x : n \in DOMAIN layout.nodes})
MaxNodeLane == SetMax({layout.nodes[n].lane : n \in DOMAIN layout.nodes})

\* C15: for a non-empty input the view box is (largest node x) + nodeSpacing
\* wide and (largest node lane + 1) * laneHeight + 2 * startY high.
C15_ViewBoxFormula ==
  (Returned /\ commits # <<>>) =>
    /\ layout.viewBox.width = MaxNodeX + LayoutConfig.nodeSpacing
    /\ layout.viewBox.height =
         (MaxNodeLane + 1) * LayoutConfig.laneHeight + 2 * LayoutConfig.startY

\* a layout under the tests' config with a lane below the highest one unused,
\* and whose newest commit is not the one listed last
C15_Witness ==
  /\ Returned
  /\ commits # <<>>
  /\ LayoutConfig.startY = 200
  /\ \E l \in 0..MaxNodeLane : \A n \in DOMAIN layout.nodes : layout.nodes[n].lane # l
  /\ layout.nodes[Len(layout.nodes)].id # commits[Len(commits)].id

\* C16: for a non-empty input and a config of non-negative integers every
\* node lies inside the view box: 0 <= x <= width and 0 <= y <= height.
C16_ViewBoxEnclosesNodes ==
  (Returned /\ commits # <<>>) =>
    \A n \in DOMAIN layout.nodes :
      /\ 0 <= layout.nodes[n].x /\ layout.nodes[n].x <= layout.viewBox.width
      /\ 0 <= layout.nodes[n].y /\ layout.nodes[n].y <= layout.viewBox.height

(***************************************************************************)
(* Empty input.                                                            *)
(***************************************************************************)
\* C17: for an empty commits list the call returns no nodes, no connections,
\* no lanes and a view box of width 0 and height 0, whatever branches list
\* and config it is given.
C17_EmptyInputEmptyLayout ==
  (Returned /\ commits = <<>>) =>
    /\ layout.nodes = <<>>
    /\ layout.connections = <<>>
    /\ layout.lanes = <<>>
    /\ layout.viewBox = [width |-> 0, height |-> 0]

\* a call on the empty list with a non-empty branches list and the tests' config
C17_Witness ==
  /\ Returned
  /\ commits = <<>>
  /\ Branches # <<>>
  /\ config = TestConfig

(***************************************************************************)
(* The bounded backward walk.                                              *)
(***************************************************************************)
InputMerges == {i \in DOMAIN commits : IsMergeCommit(commits[i])}

\* the while loop of merge commit m, run on its own
WalkOf(m) == WalkLoop(Sorted, BranchPoints, 1, m.parentIds[2], MaxDepth, EmptyMap)

\* C18: on every input, first-parent cycles and chains longer than 100
\* included, the walk of each merge commit is left after at most 100
\* iterations with at most 100 ids recorded, and the layout returned has one
\* node per commit.
C18_WalkBoundedLayoutComplete ==
  Returned =>
    /\ \A i \in InputMerges :
         /\ WalkOf(commits[i]).exited
         /\ WalkOf(commits[i]).steps <= 100
         /\ Cardinality(DOMAIN WalkOf(commits[i]).commitToLane) <= 100
    /\ Len(layout.nodes) = Len(commits)
    /\ \A i \in DOMAIN commits :
         Cardinality({n \in DOMAIN layout.nodes : layout.nodes[n].id = commits[i].id}) = 1

\* a chain of more than 100 commits merged into its root: the walk is left
\* after 100 iterations, short of the branch point, and the commit it did not
\* reach stays on lane 0
C18_Witness ==
  /\ Returned
  /\ \E i \in InputMerges :
       /\ WalkOf(commits[i]).steps = 100
       /\ Cardinality(DOMAIN WalkOf(commits[i]).commitToLane) = 100
       /\ \E j \in DOMAIN commits :
            /\ j > 1 /\ commits[j].id \notin DOMAIN WalkOf(commits[i]).commitToLane
            /\ ~IsMergeCommit(commits[j])
            /\ LaneOf(commits[j].id) = 0

\* a first-parent cycle entered by a merge commit: the walk makes 100 steps
\* around it
C18_CycleWalked ==
  /\ Returned
  /\ Len(commits) <= MaxLooseCommits
  /\ \E i \in InputMerges : WalkOf(commits[i]).steps = 100

NoMergeInput == \A i \in DOMAIN commits : ~IsMergeCommit(commits[i])

\* node k is on a lane above the lanes of all nodes before it: the lane was
\* allocated for it
FreshAt(k) == layout.nodes[k].lane > SetMax({layout.nodes[j].lane : j \in 1..(k - 1)})

\* the fork A(main) <- B(main), A <- C(feature)
ForkInput ==
  <<MakeCommit(1, 1, <<>>, <<"main">>), MakeCommit(2, 2, <<1>>, <<"main">>),
    MakeCommit(3, 3, <<1>>, <<"feature">>)>>

\* C21: on an input without merge commit the chronologically first commit
\* lacking 'main' is on lane 1 and the k-th lane allocated in chronological
\* order is lane k; the fork A(main) <- B(main), A <- C(feature) puts A and B
\* on lane 0, C on lane 1 and has two lane records.
C21_FreshLanesCountFromOne ==
  (Returned /\ NoMergeInput) =>
    /\ \A k \in DOMAIN layout.nodes :
         (~HasMain(layout.nodes[k]) /\ \A j \in 1..(k - 1) : HasMain(layout.nodes[j]))
           => layout.nodes[k].lane = 1
    /\ \A k \in DOMAIN layout.nodes :
         FreshAt(k) => layout.nodes[k].lane = Cardinality({j \in 1..k : FreshAt(j)})
    /\ commits = ForkInput =>
         /\ LaneOf(1) = 0 /\ LaneOf(2) = 0 /\ LaneOf(3) = 1
         /\ Len(layout.lanes) = 2

\* the layout of the fork
C21_Witness ==
  /\ Returned
  /\ commits = ForkInput
  /\ Len(layout.lanes) = 2

\* an input without merge commit on which a second and a third lane are allocated
C21_ThreeLanesAllocated ==
  /\ Returned /\ NoMergeInput
  /\ Cardinality({k \in DOMAIN layout.nodes : FreshAt(k)}) = 3

(***************************************************************************)
(* The coordinates asserted by __tests__/layoutCalculator.test.ts.         *)
(***************************************************************************)
\* C22: a node on lane 1 has y = startY + laneHeight (260 under the tests'
\* config), and a connection from a commit on lane 1 to its parent on lane 0
\* has startY = config.startY + laneHeight and endY = config.startY.
C22_LaneOneYIsStartYPlusLaneHeight ==
  Returned =>
    /\ \A k \in DOMAIN layout.nodes :
         layout.nodes[k].lane = 1 =>
           layout.nodes[k].y = LayoutConfig.startY + LayoutConfig.laneHeight
    /\ \A c \in DOMAIN layout.connections :
         (/\ LaneOf(layout.connections[c].fromCommitId) = 1
          /\ LaneOf(layout.connections[c].toCommitId) = 0)
           => /\ layout.connections[c].startY = LayoutConfig.startY + LayoutConfig.laneHeight
              /\ layout.connections[c].endY = LayoutConfig.startY

(***************************************************************************)
(* Branch points.                                                          *)
(***************************************************************************)
\* the commits other than commit i that list its id among their parentIds
OtherChildren(i) ==
  {j \in DOMAIN commits : j # i /\ commits[i].id \in Range(commits[j].parentIds)}

\* C23: a commit is a branch point if and only if at least two commits of the
\* input other than the commit itself list its id in their parentIds; a commit
\* listing itself, or one child listing it twice, is no extra child.
C23_BranchPointIffTwoOtherChildren ==
  Returned =>
    \A i \in DOMAIN commits :
      commits[i].id \in BranchPoints <=> Cardinality(OtherChildren(i)) >= 2

(***************************************************************************)
(* Feature-path discovery.                                                 *)
(***************************************************************************)
\* the state of the for loop of findFeaturePaths after the last merge commit
FeaturePaths ==
  FeaturePathLoop(Sorted, BranchPoints, MergeCommits(Sorted), Len(MergeCommits(Sorted)))

\* the chain of merge commit m: c0 = its second parent, c(k+1) = the first
\* parent of ck, ended by a branch point, an id absent from the input, a
\* commit without parents, or its 100th id
ChainEnded(ids) ==
  LET last == ids[Len(ids)]
  IN \/ last \in BranchPoints
     \/ ~HasCommit(Sorted, last)
     \/ CommitById(Sorted, last).parentIds = <<>>

ChainNext(ids) == Append(ids, CommitById(Sorted, ids[Len(ids)]).parentIds[1])

ChainOf(m) == WhileLoop(ChainNext, ChainEnded, <<m.parentIds[2]>>, 99)

\* the ids of the chain without the branch point that ends it
ChainIds(m) == Range(ChainOf(m)) \ BranchPoints

\* the chains of all merge commits: pairs of the chronological position of
\* the merge commit and the ids of its chain
MergeChains ==
  {<<k, ChainIds(MergeCommits(Sorted)[k])>> : k \in DOMAIN MergeCommits(Sorted)}

\* C24: feature-path discovery records exactly the ids on the chains of the
\* merge commits (from the second parent along first parents, cut before a
\* branch point, after a commit without parents or an absent id, or after
\* 100 ids), each id with the lane of the chronologically first merge commit
\* whose chain holds it; parents beyond the second start no chain.
C24_RecordedIdsAreChains ==
  Returned =>
    LET recorded == FeaturePaths
        chains == MergeChains
    IN /\ DOMAIN recorded.commitToLane = UNION {c[2] : c \in chains}
       /\ \A id \in DOMAIN recorded.commitToLane :
            \E first \in chains :
              /\ id \in first[2]
              /\ \A c \in chains : id \in c[2] => first[1] <= c[1]
              /\ recorded.commitToLane[id] = recorded.lanesTaken[first[1]]

\* a merge commit whose chain runs through an id that an earlier merge commit
\* recorded, with a third parent that is a commit of the input and is not recorded
C24_Witness ==
  /\ Returned
  /\ \E j, k \in DOMAIN MergeCommits(Sorted) :
       /\ j < k
       /\ Len(ChainOf(MergeCommits(Sorted)[k])) >= 2
       /\ ChainOf(MergeCommits(Sorted)[k])[2] \in ChainIds(MergeCommits(Sorted)[j])
       /\ Len(MergeCommits(Sorted)[k].parentIds) = 3
       /\ MergeCommits(Sorted)[k].parentIds[3] \in CommitIds \ RecordedIds

\* a chain of two or more ids ended by a branch point
C24_BranchPointCut ==
  /\ Returned
  /\ \E k \in DOMAIN MergeCommits(Sorted) :
       LET chain == ChainOf(MergeCommits(Sorted)[k])
       IN Len(chain) >= 2 /\ chain[Len(chain)] \in BranchPoints

\* a chain cut after its 100th id
C24_DepthCut ==
  /\ Returned
  /\ Len(commits) > MaxLooseCommits
  /\ \E k \in DOMAIN MergeCommits(Sorted) :
       LET chain == ChainOf(MergeCommits(Sorted)[k])
       IN Len(chain) = 100 /\ ~ChainEnded(chain)

(***************************************************************************)
(* Unmerged feature commits.                                               *)
(***************************************************************************)
\* node n is no merge commit, was not recorded by feature-path discovery and
\* lacks 'main'
UnmergedFeatureNodes ==
  LET recorded == RecordedIds
  IN {n \in DOMAIN layout.nodes :
        /\ n \notin MergeNodes
        /\ layout.nodes[n].id \notin recorded
        /\ ~HasMain(layout.nodes[n])}

\* the pairs of different unmerged feature commits whose first parent is the
\* same branch point
SiblingPairs ==
  LET unmerged == UnmergedFeatureNodes
      points == BranchPoints
  IN {nm \in unmerged \X unmerged :
        /\ nm[1] < nm[2]
        /\ layout.nodes[nm[1]].parentIds # <<>>
        /\ layout.nodes[nm[2]].parentIds # <<>>
        /\ layout.nodes[nm[1]].parentIds[1] = layout.nodes[nm[2]].parentIds[1]
        /\ layout.nodes[nm[1]].parentIds[1] \in points}

\* C25: two different unmerged feature commits whose first parent is the same
\* branch point are on different lanes, whatever the lane of the branch point
\* and whether it is processed before, between or after them.
C25_SiblingsOnDifferentLanes ==
  Returned =>
    \A nm \in SiblingPairs : layout.nodes[nm[1]].lane # layout.nodes[nm[2]].lane

\* two siblings whose branch point is processed between them and is on a
\* lane >= 1
C25_Witness ==
  /\ Returned
  /\ \E nm \in SiblingPairs :
       LET parentId == layout.nodes[nm[1]].parentIds[1]
       IN /\ parentId \in CommitIds
          /\ nm[1] < NodeIndex(parentId) /\ NodeIndex(parentId) < nm[2]
          /\ LaneOf(parentId) >= 1

\* two siblings processed after their branch point, which is on a lane >= 1
C25_BranchPointFirst ==
  /\ Returned
  /\ \E nm \in SiblingPairs :
       LET parentId == layout.nodes[nm[1]].parentIds[1]
       IN /\ parentId \in CommitIds
          /\ NodeIndex(parentId) < nm[1]
          /\ LaneOf(parentId) >= 1

\* the first parent of node n is a node processed before n
ParentProcessed(n) ==
  /\ layout.nodes[n].parentIds # <<>>
  /\ layout.nodes[n].parentIds[1] \in CommitIds
  /\ NodeIndex(layout.nodes[n].parentIds[1]) < n

\* node n continues the lane of its first parent: the parent has a lane >= 1
\* when n is processed and is no branch point, or no unmerged feature commit
\* with that first parent was processed before n
ContinuesParent(n) ==
  /\ ParentProcessed(n)
  /\ LaneOf(layout.nodes[n].parentIds[1]) >= 1
  /\ \/ layout.nodes[n].parentIds[1] \notin BranchPoints
     \/ \A m \in UnmergedFeatureNodes :
          (m < n /\ layout.nodes[m].parentIds # <<>>)
            => layout.nodes[m].parentIds[1] # layout.nodes[n].parentIds[1]

\* the largest lane allocated before node n is processed, by feature-path
\* discovery or for an earlier node
LargestLaneBefore(n) ==
  SetMax(Range(FeaturePaths.commitToLane) \cup {layout.nodes[j].lane : j \in 1..(n - 1)})

\* C26: an unmerged feature commit is on the lane of its first parent when
\* the parent has a lane >= 1 at the time the commit is processed and either
\* is no branch point or has had no unmerged feature child processed before;
\* in every other case it is on the largest lane allocated so far plus 1,
\* which is not the lane its parent has at that time.
C26_InheritOrFreshLane ==
  Returned =>
    \A n \in UnmergedFeatureNodes :
      IF ContinuesParent(n)
      THEN layout.nodes[n].lane = LaneOf(layout.nodes[n].parentIds[1])
      ELSE /\ layout.nodes[n].lane = LargestLaneBefore(n) + 1
           /\ ParentProcessed(n) =>
                layout.nodes[n].lane # LaneOf(layout.nodes[n].parentIds[1])

\* a branch point on a lane >= 1 whose first unmerged feature child continues
\* its lane and whose second one does not, with a merge commit in the input
C26_Witness ==
  /\ Returned
  /\ MergeNodes # {}
  /\ \E nm \in SiblingPairs :
       /\ ContinuesParent(nm[1])
       /\ ~ContinuesParent(nm[2])
       /\ layout.nodes[nm[2]].lane = layout.nodes[nm[1]].lane + 1

\* an unmerged feature commit whose first parent is processed after it and
\* one whose first parent is on lane 0
C26_FreshCases ==
  /\ Returned
  /\ \E n \in UnmergedFeatureNodes :
       /\ layout.nodes[n].parentIds # <<>>
       /\ layout.nodes[n].parentIds[1] \in CommitIds
       /\ NodeIndex(layout.nodes[n].parentIds[1]) > n
  /\ \E n \in UnmergedFeatureNodes :
       ParentProcessed(n) /\ LaneOf(layout.nodes[n].parentIds[1]) = 0

(***************************************************************************)
(* The lanes of feature-path discovery.                                    *)
(***************************************************************************)
\* the state of the for loop of findFeaturePaths before its k-th merge commit
FeaturePathsBefore(k) ==
  FeaturePathLoop(Sorted, BranchPoints, MergeCommits(Sorted), k - 1)

\* C27: feature-path discovery records every id on lane 1: the walk of every
\* merge commit takes lane 1 from the free list, which holds it again when
\* the next walk starts, and no walk takes the highest lane used plus 1.
C27_EveryWalkOnLaneOne ==
  Returned =>
    /\ \A id \in DOMAIN FeaturePaths.commitToLane : FeaturePaths.commitToLane[id] = 1
    /\ \A k \in DOMAIN MergeCommits(Sorted) :
         /\ FeaturePathsBefore(k).availableLanes = <<1>>
         /\ TakeLane(FeaturePathsBefore(k)).lane = 1
         /\ ~TakeLane(FeaturePathsBefore(k)).fresh
    /\ FeaturePaths.maxLaneUsed = 1

\* two merge commits with disjoint paths that are active at the same time
C27_Witness ==
  /\ Returned
  /\ Cardinality(MergeNodes) = 2
  /\ \E i \in MergeNodes, j \in MergeNodes :
       i # j /\ PlainPaths(i, j) /\ Concurrent(i, j)

(***************************************************************************)
(* The branches argument.                                                  *)
(***************************************************************************)
\* branches lists the call could have been made with instead
OtherBranchLists ==
  {<<>>, <<MakeBranch("dev", 1)>>, <<MakeBranch("dev", Len(commits))>>,
   <<MakeBranch("feature", 2), MakeBranch("dev", 3)>>,
   <<MakeBranch("dev", 3), MakeBranch("feature", 2)>>}

\* the layouts of the same commits and config under the other branches lists
OtherLayouts ==
  {calculateGitGraphLayout(commits, BranchesArg(b), config) : b \in OtherBranchLists}

\* the lane records without their names
Unnamed(lanes) ==
  [i \in 1..Len(lanes) |->
     [laneNumber |-> lanes[i].laneNumber, commitIds |-> lanes[i].commitIds]]

\* C28: for the same commits and config, a call with any other branches list
\* returns the same nodes, connections and view box, and the same lane
\* records up to their branchName.
C28_BranchesOnlyNameLanes ==
  (Returned /\ IsArray(branchesOrConfig)) =>
    \A other \in OtherLayouts :
      /\ other.nodes = layout.nodes
      /\ other.connections = layout.connections
      /\ other.viewBox = layout.viewBox
      /\ Unnamed(other.lanes) = Unnamed(layout.lanes)

\* a call with a branches list that names a lane which another branches list
\* names differently and a third leaves without name
C28_Witness ==
  /\ Returned /\ IsArray(branchesOrConfig)
  /\ \E r \in DOMAIN layout.lanes :
       /\ layout.lanes[r].branchName # <<>>
       /\ \E other \in OtherLayouts : other.lanes[r].branchName = <<>>
       /\ \E other \in OtherLayouts :
            /\ other.lanes[r].branchName # <<>>
            /\ other.lanes[r].branchName # layout.lanes[r].branchName

(***************************************************************************)
(* Unmerged feature commits next to merged feature paths.                  *)
(***************************************************************************)
\* the lanes of the nodes that feature-path discovery recorded
RecordedNodeLanes ==
  LET recorded == RecordedIds
  IN {layout.nodes[m].lane : m \in {k \in DOMAIN layout.nodes : layout.nodes[k].id \in recorded}}

\* C29: when feature-path discovery recorded an id, every unmerged feature
\* commit is on a lane >= 2 that no recorded commit is on: the largest lane
\* allocated so far plus 1, or the lane of its first parent, an unmerged
\* feature commit processed before it.
C29_UnmergedOffRecordedLanes ==
  (Returned /\ RecordedIds # {}) =>
    \A n \in UnmergedFeatureNodes :
      /\ layout.nodes[n].lane >= 2
      /\ layout.nodes[n].lane \notin RecordedNodeLanes
      /\ \/ layout.nodes[n].lane = LargestLaneBefore(n) + 1
         \/ /\ ParentProcessed(n)
            /\ NodeIndex(layout.nodes[n].parentIds[1]) \in UnmergedFeatureNodes
            /\ layout.nodes[n].lane = LaneOf(layout.nodes[n].parentIds[1])

\* a recorded commit on lane 1 laid out with an unmerged feature commit on a
\* new lane and another one that continues that lane
C29_Witness ==
  /\ Returned
  /\ 1 \in RecordedNodeLanes
  /\ \E n, m \in UnmergedFeatureNodes :
       /\ n < m
       /\ layout.nodes[n].lane = LargestLaneBefore(n) + 1
       /\ layout.nodes[m].parentIds = <<layout.nodes[n].id>>
       /\ layout.nodes[m].lane = layout.nodes[n].lane

(***************************************************************************)
(* The lanes in use.                                                       *)
(***************************************************************************)
NodeLanes == {layout.nodes[n].lane : n \in DOMAIN layout.nodes}

\* the number of lane records above the trunk
UpperLaneRecords ==
  Cardinality({r \in DOMAIN layout.lanes : layout.lanes[r].laneNumber >= 1})

\* C30 as stated: a lane L >= 2 is in use only if lane L - 1 is, and the
\* number of lane records with laneNumber >= 1 is the largest lane in use,
\* also when the second parent of a merge commit is absent from the input or
\* is a merge commit.
C30_LanesGapFree ==
  Returned =>
    /\ \A l \in NodeLanes : l >= 2 => (l - 1) \in NodeLanes
    /\ UpperLaneRecords = MaxNodeLane

\* feature-path discovery recorded lane 1, and only for ids that are absent
\* from the input or are merge commits, which are laid out on lane 0
LaneOneVacant ==
  LET recorded == RecordedIds
  IN /\ recorded # {}
     /\ \A id \in recorded :
          id \notin CommitIds \/ IsMergeCommit(CommitById(commits, id))

\* C30 amended: a lane L >= 3 is in use only if lane L - 1 is; lane 2 is in
\* use only if lane 1 is, or if feature-path discovery recorded lane 1 only
\* for ids that are absent from the input or are merge commits.  The number
\* of lane records with laneNumber >= 1 is the largest lane in use, less 1
\* when lane 1 is skipped in that way.
C30_LanesGapFreeAboveLaneOne ==
  Returned =>
    /\ \A l \in NodeLanes : l >= 3 => (l - 1) \in NodeLanes
    /\ (2 \in NodeLanes /\ 1 \notin NodeLanes) => LaneOneVacant
    /\ UpperLaneRecords =
         IF 2 \in NodeLanes /\ 1 \notin NodeLanes THEN MaxNodeLane - 1 ELSE MaxNodeLane

\* a merge commit whose second parent is absent from the input, laid out
\* with commits on lane 2 and lane 3 and none on lane 1
C30_Witness ==
  /\ Returned
  /\ \E n \in MergeNodes : layout.nodes[n].parentIds[2] \notin CommitIds
  /\ {2, 3} \subseteq NodeLanes
  /\ 1 \notin NodeLanes

\* no merge commit with a second parent absent from the input and one whose
\* second parent is a merge commit, laid out with a commit on lane 2 and none
\* on lane 1
C30_MergeOfMerge ==
  /\ Returned
  /\ \A n \in MergeNodes : layout.nodes[n].parentIds[2] \in CommitIds
  /\ \E n \in MergeNodes : NodeIndex(layout.nodes[n].parentIds[2]) \in MergeNodes
  /\ 2 \in NodeLanes
  /\ 1 \notin NodeLanes

====
